---- MODULE Spec2Model ----
(***************************************************************************)
(* Slack View Customizer content script (src/content.js, three flags; the  *)
(* two-flag variant src/unnamed/part_000 is the same code without "left"). *)
(*                                                                         *)
(* The page is an event loop: every action below is one callback run to    *)
(* completion (script execution, DOMContentLoaded, a storage callback, a   *)
(* polling tick, a click, a keydown) or one step of the environment (the   *)
(* host page rendering its container, a page reload).                      *)
(*                                                                         *)
(* chrome.storage.local is modelled as a store plus a FIFO of requests in  *)
(* flight; a request is answered later, with or without                    *)
(* chrome.runtime.lastError.  A call of chrome.storage.local.get/set may   *)
(* instead throw synchronously (chrome undefined, extension context        *)
(* invalidated), which is what the catch blocks of the helpers handle.     *)
(* A store value is a set: {} when the key is absent, {v} when it holds v. *)
(***************************************************************************)
EXTENDS Integers, Sequences, FiniteSets, TLC

VARIABLES
    bodyClass,    \* [Flags -> BOOLEAN]: marker class of the flag on document.body
    dom,          \* sequence of the controls appended to document.body
    chromeStore,  \* chrome.storage.local: [Flags -> {{}, {TRUE}, {FALSE}}]
    localStore,   \* localStorage: [Flags -> {{}, {"true"}, {"false"}}]
    queue,        \* chrome.storage.local requests in flight, oldest first
    pc,           \* [Runs -> position of that script execution's init()]
    reads,        \* [Runs -> [Flags -> result of getStoredState in init()]]
    elapsed,      \* [Runs -> the closure variable elapsed of init()]
    container,    \* the host page's container element exists
    lastToggle,   \* history: [Flags -> the most recent toggle of the flag]
    nUser,        \* number of user actions that toggled something
    warned,       \* [Runs -> the timeout warning of init() was written]
    lastLeftPos   \* [Runs -> the closure variable lastLeftPos]

vars == <<bodyClass, dom, chromeStore, localStore, queue, pc, reads, elapsed,
          container, lastToggle, nUser, warned, lastLeftPos>>

----------------------------------------------------------------------------
\* Bounds of the model.
MaxRuns == 2
MaxUser == 2

\* Program constants.
maxWait == 15000
interval == 300

Flags == {"top", "bottom", "left"}
FlagOrder == <<"top", "bottom", "left">>
Runs == 1..MaxRuns
Keys == {"h", "H", "j", "J", "l", "L", "k"}
\* The key events the model presses: every key with Alt+Shift, and "h" with
\* the other combinations of the modifiers.
KeyEvents ==
    {<<TRUE, TRUE, k>> : k \in Keys}
      \cup {<<a, b, "h">> : a \in BOOLEAN, b \in BOOLEAN}

----------------------------------------------------------------------------
\* Icons and labels.  The labels stand for the Japanese literals of the source:
\* "show-header" = 'ヘッダーを表示', "hide-header" = 'ヘッダーを非表示', etc.

IconTop(collapsed) == IF collapsed THEN "ICON_DOWN" ELSE "ICON_UP"
LabelTop(collapsed) == IF collapsed THEN "show-header" ELSE "hide-header"
\* Mutant: the bottom control given the icons of the top control.
IconBottomCopied(collapsed) == IF collapsed THEN "ICON_DOWN" ELSE "ICON_UP"
IconBottom(collapsed) == IF collapsed THEN "ICON_UP" ELSE "ICON_DOWN"
LabelBottom(collapsed) == IF collapsed THEN "show-input" ELSE "hide-input"
IconLeft(collapsed) == IF collapsed THEN "ICON_RIGHT" ELSE "ICON_LEFT"
LabelLeft(collapsed) == IF collapsed THEN "show-sidebar" ELSE "hide-sidebar"

\* A freshly created <button> with its id; owner is the script execution whose
\* init() created it (its click listener closes over that execution).
NewButton(f, r) == [id |-> f, owner |-> r, icon |-> "", label |-> "", left |-> ""]

\* document.getElementById(id): the first element with the id in document
\* order, 0 for null.
GetElementByIdIn(d, f) ==
    IF \E i \in 1..Len(d) : d[i].id = f
    THEN CHOOSE i \in 1..Len(d) : d[i].id = f /\ \A j \in 1..(i-1) : d[j].id # f
    ELSE 0

getElementById(f) == GetElementByIdIn(dom, f)

----------------------------------------------------------------------------
\* The part of the state the synchronous handlers read and write, as a record,
\* so that a handler is a function from state to state.
Cur == [cls |-> bodyClass, dom |-> dom, loc |-> localStore, q |-> queue,
        lt |-> lastToggle]

\* String(value) of a boolean.
String(v) == IF v THEN "true" ELSE "false"

\* Mutants: result[key] !== undefined, and result[key] !== false.
ResultIsDefined(store, f) == store[f] # {}
ResultNotFalse(store, f) == store[f] # {FALSE}

\* result[key] === true, on the value the extension store holds.
ResultIsTrue(store, f) == store[f] = {TRUE}

\* localStorage.getItem(key) === 'true'
LocalIsTrue(store, f) == store[f] = {"true"}

SetOp(f, v) == [op |-> "set", key |-> f, value |-> v, run |-> 0]
GetOp(f, r) == [op |-> "get", key |-> f, value |-> FALSE, run |-> r]

\* A write of the flag is among the requests q.
PendingSetIn(q, f) == \E k \in 1..Len(q) : q[k].op = "set" /\ q[k].key = f

\* Mutant: a throwing chrome.storage.local.set is swallowed without the
\* page-local fallback.
setStoredStateNoFallback(s, f, v, thrown) ==
    IF thrown
    THEN s
    ELSE [s EXCEPT !.q = Append(s.q, SetOp(f, v)),
                   !.lt[f] = [via |-> "chrome", val |-> v, cur |-> TRUE,
                              over |-> PendingSetIn(s.q, f)]]

\* Mutant: no write is sent while an earlier write of the flag is in flight.
setStoredStateSkipsBusy(s, f, v, thrown) ==
    IF thrown
    THEN [s EXCEPT !.loc[f] = {String(v)},
                   !.lt[f] = [via |-> "local", val |-> v, cur |-> TRUE,
                              over |-> PendingSetIn(s.q, f)]]
    ELSE [s EXCEPT !.q = IF PendingSetIn(s.q, f) THEN s.q ELSE Append(s.q, SetOp(f, v)),
                   !.lt[f] = [via |-> "chrome", val |-> v, cur |-> TRUE,
                              over |-> PendingSetIn(s.q, f)]]

\* setStoredState(key, value); thrown: chrome.storage.local.set throws.  The
\* history records where the value went and whether an earlier write of the
\* flag was still in flight (over).
setStoredState(s, f, v, thrown) ==
    IF thrown
    THEN [s EXCEPT !.loc[f] = {String(v)},
                   !.lt[f] = [via |-> "local", val |-> v, cur |-> TRUE,
                              over |-> PendingSetIn(s.q, f)]]
    ELSE [s EXCEPT !.q = Append(s.q, SetOp(f, v)),
                   !.lt[f] = [via |-> "chrome", val |-> v, cur |-> TRUE,
                              over |-> PendingSetIn(s.q, f)]]

\* Mutant: classList.add when collapsed, the class is never removed.
applyTopStateAddOnly(s, collapsed, i) ==
    LET t == [s EXCEPT !.cls["top"] = s.cls["top"] \/ collapsed]
    IN IF i # 0
       THEN [t EXCEPT !.dom[i].icon = IconTop(collapsed),
                      !.dom[i].label = LabelTop(collapsed)]
       ELSE t

\* applyTopState / applyBottomState / applyLeftState(collapsed, btn): i is the
\* position of btn in the document, 0 when btn is null.  (applyLeftState also
\* assigns the constants '50%' and 'translateY(-50%)' to the button's style.)
applyTopState(s, collapsed, i) ==
    LET t == [s EXCEPT !.cls["top"] = collapsed]
    IN IF i # 0
       THEN [t EXCEPT !.dom[i].icon = IconTop(collapsed),
                      !.dom[i].label = LabelTop(collapsed)]
       ELSE t

applyBottomState(s, collapsed, i) ==
    LET t == [s EXCEPT !.cls["bottom"] = collapsed]
    IN IF i # 0
       THEN [t EXCEPT !.dom[i].icon = IconBottom(collapsed),
                      !.dom[i].label = LabelBottom(collapsed)]
       ELSE t

\* Mutant: applyLeftState toggles the class of the top region.
applyLeftStateCopied(s, collapsed, i) ==
    LET t == [s EXCEPT !.cls["top"] = collapsed]
    IN IF i # 0
       THEN [t EXCEPT !.dom[i].icon = IconLeft(collapsed),
                      !.dom[i].label = LabelLeft(collapsed)]
       ELSE t

applyLeftState(s, collapsed, i) ==
    LET t == [s EXCEPT !.cls["left"] = collapsed]
    IN IF i # 0
       THEN [t EXCEPT !.dom[i].icon = IconLeft(collapsed),
                      !.dom[i].label = LabelLeft(collapsed)]
       ELSE t

applyState(s, f, collapsed, i) ==
    CASE f = "top" -> applyTopState(s, collapsed, i)
      [] f = "bottom" -> applyBottomState(s, collapsed, i)
      [] OTHER -> applyLeftState(s, collapsed, i)

\* The state a click applies: the negation of the class's presence.
newStateOf(nowCollapsed) == ~nowCollapsed

\* Mutant: the listener persists the state it read instead of the new one.
ClickHandlerPersistsOld(s, i, thrown) ==
    LET f == s.dom[i].id
        nowCollapsed == s.cls[f]
        newState == newStateOf(nowCollapsed)
    IN setStoredState(applyState(s, f, newState, i), f, nowCollapsed, thrown)

\* Mutant: the listener flips the initialCollapsed its closure was created
\* with instead of reading the class.
ClickHandlerFromStartup(s, i, thrown) ==
    LET f == s.dom[i].id
        nowCollapsed == reads[s.dom[i].owner][f].val
        newState == newStateOf(nowCollapsed)
    IN setStoredState(applyState(s, f, newState, i), f, newState, thrown)

\* The click listener of the control at position i of the document.
ClickHandler(s, i, thrown) ==
    LET f == s.dom[i].id
        nowCollapsed == s.cls[f]
        newState == newStateOf(nowCollapsed)
    IN setStoredState(applyState(s, f, newState, i), f, newState, thrown)

\* createTopButton / createBottomButton / createLeftButton(initialCollapsed)
\* followed by document.body.appendChild: the buttons are appended in the
\* order they were created, and nothing runs in between.
createButton(s, f, initialCollapsed, r) ==
    applyState([s EXCEPT !.dom = Append(s.dom, NewButton(f, r))],
               f, initialCollapsed, Len(s.dom) + 1)

----------------------------------------------------------------------------
\* Initial state: a fresh install on a page whose script has not run yet.

NoRead == [st |-> "none", val |-> FALSE]
NoToggle == [via |-> "none", val |-> FALSE, cur |-> FALSE, over |-> FALSE]

Init ==
    /\ bodyClass = [f \in Flags |-> FALSE]
    /\ dom = <<>>
    /\ chromeStore = [f \in Flags |-> {}]
    /\ localStore = [f \in Flags |-> {}]
    /\ queue = <<>>
    /\ pc = [r \in Runs |-> "unloaded"]
    /\ reads = [r \in Runs |-> [f \in Flags |-> NoRead]]
    /\ elapsed = [r \in Runs |-> 0]
    /\ container = FALSE
    /\ lastToggle = [f \in Flags |-> NoToggle]
    /\ nUser = 0
    /\ warned = [r \in Runs |-> FALSE]
    /\ lastLeftPos = [r \in Runs |-> ""]

----------------------------------------------------------------------------
\* getStoredState(key) when chrome.storage.local.get throws: the promise is
\* resolved at once from localStorage.
ReadThrown(f) == [st |-> "thrown", val |-> LocalIsTrue(localStore, f)]

\* Mutant: the callback does not look at chrome.runtime.lastError.
ReadResolvedUnchecked(f, lastError) ==
    [st |-> IF lastError THEN "error" ELSE "ok", val |-> ResultIsTrue(chromeStore, f)]

\* getStoredState(key) when the callback runs: false on lastError, otherwise
\* result[key] === true.
ReadResolved(f, lastError) ==
    IF lastError
    THEN [st |-> "error", val |-> FALSE]
    ELSE [st |-> "ok", val |-> ResultIsTrue(chromeStore, f)]

\* The get requests of the keys whose call did not throw, in call order.
RECURSIVE GetOps(_, _, _)
GetOps(k, thrown, r) ==
    IF k > Len(FlagOrder) THEN <<>>
    ELSE (IF FlagOrder[k] \in thrown THEN <<>> ELSE <<GetOp(FlagOrder[k], r)>>)
         \o GetOps(k + 1, thrown, r)

\* The duplicate-injection guard of init().
AlreadyInjected == getElementById("top") # 0

\* init(), up to its await: returns when the top control exists, otherwise
\* issues the three reads.  The three calls run in one task, so
\* chrome.storage.local.get throws for all of them or for none.  When they
\* throw, Promise.all resolves in the same task and the polling interval is set.
InitCall(r) ==
    IF AlreadyInjected
    THEN /\ pc' = [pc EXCEPT ![r] = "returned"]
         /\ UNCHANGED <<reads, queue, elapsed>>
    ELSE \E thrown \in {{}, Flags} :
         /\ reads' = [reads EXCEPT ![r] =
                [f \in Flags |-> IF f \in thrown THEN ReadThrown(f)
                                 ELSE [st |-> "pending", val |-> FALSE]]]
         /\ queue' = queue \o GetOps(1, thrown, r)
         /\ pc' = [pc EXCEPT ![r] = IF thrown = Flags THEN "polling" ELSE "reading"]
         /\ elapsed' = [elapsed EXCEPT ![r] = 0]

\* The script is executed for the r-th time on this page: its listeners are
\* registered and init() is called now or on DOMContentLoaded.
ScriptExec(r) ==
    /\ pc[r] = "unloaded"
    /\ \A q \in 1..(r-1) : pc[q] # "unloaded"
    /\ \E ready \in BOOLEAN :
         IF ready
         THEN InitCall(r)
         ELSE /\ pc' = [pc EXCEPT ![r] = "waiting"]
              /\ UNCHANGED <<reads, queue, elapsed>>
    /\ UNCHANGED <<bodyClass, dom, chromeStore, localStore, container,
                   lastToggle, nUser, warned, lastLeftPos>>

DOMContentLoaded(r) ==
    /\ pc[r] = "waiting"
    /\ InitCall(r)
    /\ UNCHANGED <<bodyClass, dom, chromeStore, localStore, container,
                   lastToggle, nUser, warned, lastLeftPos>>

----------------------------------------------------------------------------
\* The extension store answers the oldest request in flight.

LaterSet(f) == \E k \in 2..Len(queue) : queue[k].op = "set" /\ queue[k].key = f

StorageDone ==
    /\ queue # <<>>
    /\ \E lastError \in BOOLEAN :
        LET o == Head(queue) IN
        /\ queue' = Tail(queue)
        /\ IF o.op = "set"
           THEN /\ chromeStore' = IF lastError THEN chromeStore
                                  ELSE [chromeStore EXCEPT ![o.key] = {o.value}]
                /\ lastToggle' =
                     IF lastError /\ lastToggle[o.key].via = "chrome" /\ ~LaterSet(o.key)
                     THEN [lastToggle EXCEPT ![o.key].via = "lost"]
                     ELSE lastToggle
                /\ UNCHANGED <<reads, pc, elapsed>>
           ELSE LET rd == [reads[o.run] EXCEPT ![o.key] = ReadResolved(o.key, lastError)]
                IN /\ reads' = [reads EXCEPT ![o.run] = rd]
                   /\ IF \A f \in Flags : rd[f].st # "pending"
                      THEN /\ pc' = [pc EXCEPT ![o.run] = "polling"]
                           /\ elapsed' = [elapsed EXCEPT ![o.run] = 0]
                      ELSE UNCHANGED <<pc, elapsed>>
                   /\ UNCHANGED <<chromeStore, lastToggle>>
    /\ UNCHANGED <<bodyClass, dom, localStore, container, nUser, warned,
                   lastLeftPos>>

----------------------------------------------------------------------------
\* The polling interval of init().

\* The host page renders '.p-ia4_top_nav' or '.p-client_container'.
HostRenders ==
    /\ ~container
    /\ container' = TRUE
    /\ UNCHANGED <<bodyClass, dom, chromeStore, localStore, queue, pc, reads,
                   elapsed, lastToggle, nUser, warned, lastLeftPos>>

\* Mutants: the timeout compared with >, and the interval never cleared.
ShouldInjectLate(found, e) == found \/ e > maxWait
clearIntervalMissing(p, r) == p

\* The condition under which a tick injects; e is elapsed after "+= interval".
ShouldInject(found, e) == found \/ e >= maxWait

\* Mutant: the warning is written on the timeout tick whether or not the
\* container was found.
ShouldWarnOnTimeout(found, e) == e >= maxWait

\* The condition of the timeout warning, tested after the injection.
ShouldWarn(found, e) == ~found /\ e >= maxWait

\* clearInterval(waitForSlack)
clearInterval(p, r) == [p EXCEPT ![r] = "done"]

\* Mutant: the injection also persists the states it applies.
InjectPersists(s, r) ==
    LET n == Len(s.dom)
        s1 == createButton(s, "top", reads[r]["top"].val, r)
        s2 == createButton(s1, "bottom", reads[r]["bottom"].val, r)
        s3 == createButton(s2, "left", reads[r]["left"].val, r)
        s4 == applyTopState(s3, reads[r]["top"].val, n + 1)
        s5 == applyBottomState(s4, reads[r]["bottom"].val, n + 2)
        s6 == applyLeftState(s5, reads[r]["left"].val, n + 3)
    IN [s6 EXCEPT !.q = Append(s6.q, SetOp("left", reads[r]["left"].val))]

\* Create the three buttons, append them, apply the initial states again.
Inject(s, r) ==
    LET n == Len(s.dom)
        s1 == createButton(s, "top", reads[r]["top"].val, r)
        s2 == createButton(s1, "bottom", reads[r]["bottom"].val, r)
        s3 == createButton(s2, "left", reads[r]["left"].val, r)
        s4 == applyTopState(s3, reads[r]["top"].val, n + 1)
        s5 == applyBottomState(s4, reads[r]["bottom"].val, n + 2)
    IN applyLeftState(s5, reads[r]["left"].val, n + 3)

\* The handlers' part of the state is written back.
Commit(s) ==
    /\ bodyClass' = s.cls
    /\ dom' = s.dom
    /\ localStore' = s.loc
    /\ queue' = s.q
    /\ lastToggle' = s.lt

\* One run of the waitForSlack callback.  After clearInterval nothing reads
\* elapsed again; the model then drops its value.
Tick(r) ==
    /\ pc[r] = "polling"
    /\ LET e == elapsed[r] + interval IN
       IF ShouldInject(container, e)
       THEN LET s == Inject(Cur, r) IN
            /\ pc' = clearInterval(pc, r)
            /\ elapsed' = [elapsed EXCEPT ![r] = 0]
            /\ Commit(s)
            /\ warned' = [warned EXCEPT ![r] = ShouldWarn(container, e)]
       ELSE /\ elapsed' = [elapsed EXCEPT ![r] = e]
            /\ UNCHANGED <<pc, bodyClass, dom, localStore, queue, lastToggle,
                           warned>>
    /\ UNCHANGED <<chromeStore, reads, container, nUser, lastLeftPos>>

----------------------------------------------------------------------------
\* The positioning interval of the left control, set when the script runs.

\* What getBoundingClientRect reports for the host elements: left of the
\* sidebar resizer, right of the sidebar, right of the tab rail.  An element is
\* {} when querySelector finds none, {x} otherwise.
ResizerLefts == {0, 6, 10, 11}
SidebarRights == {14, 260}
TabRailRights == {14, 70}
Rects(S) == {{}} \cup {{x} : x \in S}
ValueOf(e) == CHOOSE x \in e : TRUE

\* Mutant: an offset is assumed when the host elements are missing.
TargetLeftAssumed(collapsed, resizer, sidebar, tabRail) ==
    IF ~collapsed
    THEN IF resizer # {} /\ ValueOf(resizer) > 0
         THEN ValueOf(resizer) + 4 - 14
         ELSE IF sidebar # {} THEN ValueOf(sidebar) - 14 ELSE 246
    ELSE IF tabRail # {} THEN ValueOf(tabRail) - 14 ELSE 56

\* targetLeft of one tick.
TargetLeft(collapsed, resizer, sidebar, tabRail) ==
    IF ~collapsed
    THEN IF resizer # {} /\ ValueOf(resizer) > 0
         THEN ValueOf(resizer) + 4 - 14
         ELSE IF sidebar # {} THEN ValueOf(sidebar) - 14 ELSE 0
    ELSE IF tabRail # {} THEN ValueOf(tabRail) - 14 ELSE 0

\* Mutant: the offset is assigned whenever it is not negative.
ShouldAssignZero(targetLeft) == targetLeft >= 0

\* The guard of the assignment.
ShouldAssign(targetLeft) == targetLeft > 0

\* targetLeft + 'px'
Px(targetLeft) == ToString(targetLeft) \o "px"

\* The positioning callback: s is the handlers' part of the state, last the
\* lastLeftPos of the closure; the result is both after the callback.
PositionLeft(s, last, resizer, sidebar, tabRail) ==
    LET btn == GetElementByIdIn(s.dom, "left")
        collapsed == s.cls["left"]
        targetLeft == TargetLeft(collapsed, resizer, sidebar, tabRail)
        newPos == Px(targetLeft)
    IN IF btn # 0 /\ ShouldAssign(targetLeft) /\ newPos # last
       THEN [s |-> [s EXCEPT !.dom[btn].left = newPos], last |-> newPos]
       ELSE [s |-> s, last |-> last]

\* One run of the positioning callback of script execution r.
PosTick(r) ==
    /\ pc[r] # "unloaded"
    /\ \E resizer \in Rects(ResizerLefts), sidebar \in Rects(SidebarRights),
          tabRail \in Rects(TabRailRights) :
        LET p == PositionLeft(Cur, lastLeftPos[r], resizer, sidebar, tabRail)
        IN /\ Commit(p.s)
           /\ lastLeftPos' = [lastLeftPos EXCEPT ![r] = p.last]
    /\ UNCHANGED <<chromeStore, pc, reads, elapsed, container, nUser, warned>>

----------------------------------------------------------------------------
\* User input.

\* The user clicks the control at position i of the document.
Click(i) ==
    /\ i \in 1..Len(dom)
    /\ nUser < MaxUser
    /\ \E thrown \in BOOLEAN : Commit(ClickHandler(Cur, i, thrown))
    /\ nUser' = nUser + 1
    /\ UNCHANGED <<chromeStore, pc, reads, elapsed, container, warned, lastLeftPos>>

\* Mutant: the key compared without toLowerCase().
toLowerCaseMissing(k) == k

\* e.key.toLowerCase(), on the keys the model presses.
toLowerCase(k) ==
    CASE k = "H" -> "h"
      [] k = "J" -> "j"
      [] k = "L" -> "l"
      [] k = "K" -> "k"
      [] OTHER -> k

\* The flag whose shortcut the key event is, "" when it is none.
ShortcutFlag(alt, shift, key) ==
    IF alt /\ shift
    THEN CASE toLowerCase(key) = "h" -> "top"
           [] toLowerCase(key) = "j" -> "bottom"
           [] toLowerCase(key) = "l" -> "left"
           [] OTHER -> ""
    ELSE ""

\* Mutant: the shortcut toggles the flag without looking for the control.
KeyListenerNoButton(s, alt, shift, key, thrown) ==
    LET f == ShortcutFlag(alt, shift, key)
        i == IF f = "" THEN 0 ELSE GetElementByIdIn(s.dom, f)
    IN IF f # ""
       THEN setStoredState(applyState(s, f, newStateOf(s.cls[f]), i), f,
                           newStateOf(s.cls[f]), thrown)
       ELSE s

\* One keydown listener: btn = getElementById(id); if (btn) btn.click().
KeyListener(s, alt, shift, key, thrown) ==
    LET f == ShortcutFlag(alt, shift, key)
        i == IF f = "" THEN 0 ELSE GetElementByIdIn(s.dom, f)
    IN IF i # 0 THEN ClickHandler(s, i, thrown) ELSE s

\* The keydown event runs the listener of every script execution, in the
\* order the listeners were registered.
RECURSIVE KeyEvent(_, _, _, _, _, _)
KeyEvent(s, r, alt, shift, key, thr) ==
    IF r > MaxRuns THEN s
    ELSE KeyEvent(IF pc[r] # "unloaded"
                  THEN KeyListener(s, alt, shift, key, thr[r])
                  ELSE s,
                  r + 1, alt, shift, key, thr)

\* A keydown event.  When its key is no shortcut, or the shortcut's control
\* does not exist, no listener does anything.
KeyDown(alt, shift, key) ==
    LET f == ShortcutFlag(alt, shift, key) IN
    IF f = "" \/ getElementById(f) = 0
    THEN UNCHANGED vars
    ELSE /\ nUser < MaxUser
         /\ \E thr \in [Runs -> BOOLEAN] :
              Commit(KeyEvent(Cur, 1, alt, shift, key, thr))
         /\ nUser' = nUser + 1
         /\ UNCHANGED <<chromeStore, pc, reads, elapsed, container, warned, lastLeftPos>>

\* The page is reloaded: the document, the scripts and their timers are gone;
\* both stores and the writes already sent to the extension store remain.
IsSet(o) == o.op = "set"

Reload ==
    /\ pc[1] # "unloaded"
    /\ bodyClass' = [f \in Flags |-> FALSE]
    /\ dom' = <<>>
    /\ queue' = SelectSeq(queue, IsSet)
    /\ pc' = [r \in Runs |-> "unloaded"]
    /\ reads' = [r \in Runs |-> [f \in Flags |-> NoRead]]
    /\ elapsed' = [r \in Runs |-> 0]
    /\ container' = FALSE
    /\ lastToggle' = [f \in Flags |->
                          [lastToggle[f] EXCEPT !.cur = FALSE, !.over = FALSE]]
    /\ warned' = [r \in Runs |-> FALSE]
    /\ lastLeftPos' = [r \in Runs |-> ""]
    /\ UNCHANGED <<chromeStore, localStore, nUser>>

----------------------------------------------------------------------------
\* Specifications.

\* One execution of the script per page load.
Next ==
    \/ ScriptExec(1)
    \/ DOMContentLoaded(1)
    \/ StorageDone
    \/ HostRenders
    \/ Tick(1)
    \/ \E i \in 1..Len(dom) : Click(i)
    \/ \E e \in KeyEvents : KeyDown(e[1], e[2], e[3])
    \/ Reload

Spec == Init /\ [][Next]_vars

\* One page session, with the polling timer firing as long as it is set.
NextSession ==
    \/ ScriptExec(1)
    \/ DOMContentLoaded(1)
    \/ StorageDone
    \/ HostRenders
    \/ Tick(1)
    \/ \E i \in 1..Len(dom) : Click(i)
    \/ \E e \in KeyEvents : KeyDown(e[1], e[2], e[3])

SpecSession == Init /\ [][NextSession]_vars /\ WF_vars(Tick(1))

\* One page session with the positioning interval of the left control.  (Spec
\* and SpecSession leave the interval out: it writes style.left and lastLeftPos
\* only, which nothing else reads.)
NextPosition ==
    \/ ScriptExec(1)
    \/ DOMContentLoaded(1)
    \/ StorageDone
    \/ HostRenders
    \/ Tick(1)
    \/ PosTick(1)
    \/ \E i \in 1..Len(dom) : Click(i)
    \/ \E e \in KeyEvents : KeyDown(e[1], e[2], e[3])

SpecPosition == Init /\ [][NextPosition]_vars

\* The script is executed more than once on the same page (the case the guard
\* of init() is written for), up to the first user input.
NextReinject ==
    \/ \E r \in Runs : ScriptExec(r)
    \/ \E r \in Runs : DOMContentLoaded(r)
    \/ StorageDone
    \/ HostRenders
    \/ \E r \in Runs : Tick(r)

SpecReinject == Init /\ [][NextReinject]_vars

----------------------------------------------------------------------------
\* Vocabulary of the properties.

\* A write of the flag is still in flight.
PendingSet(f) == PendingSetIn(queue, f)

\* The controls of run 1 are in the document.
Injected == pc[1] = "done"

\* The tick of run 1 that injects the controls.
InjectStep == pc[1] = "polling" /\ pc'[1] = "done"

\* Icon and label that offer to expand (shown while collapsed) or to collapse
\* (shown while expanded) the region of a flag.
ExpandIcon(f) ==
    CASE f = "top" -> "ICON_DOWN" [] f = "bottom" -> "ICON_UP" [] OTHER -> "ICON_RIGHT"
ExpandLabel(f) ==
    CASE f = "top" -> "show-header" [] f = "bottom" -> "show-input" [] OTHER -> "show-sidebar"
CollapseIcon(f) ==
    CASE f = "top" -> "ICON_UP" [] f = "bottom" -> "ICON_DOWN" [] OTHER -> "ICON_LEFT"
CollapseLabel(f) ==
    CASE f = "top" -> "hide-header" [] f = "bottom" -> "hide-input" [] OTHER -> "hide-sidebar"

ShowsExpand(b) == b.icon = ExpandIcon(b.id) /\ b.label = ExpandLabel(b.id)
ShowsCollapse(b) == b.icon = CollapseIcon(b.id) /\ b.label = CollapseLabel(b.id)

\* The keys of a flag's shortcut, in both letter cases.
ShortcutKeys(f) ==
    CASE f = "top" -> {"h", "H"} [] f = "bottom" -> {"j", "J"} [] OTHER -> {"l", "L"}

----------------------------------------------------------------------------
\* C1 as stated: after a toggle of a flag in this session, once no write of the
\* flag is in flight, the value persisted under the flag's key (in the extension
\* store or in page-local storage) is the presence of the marker class.
C1_PersistedEqualsClass ==
    \A f \in Flags :
        lastToggle[f].cur /\ ~PendingSet(f) =>
            \/ chromeStore[f] = {bodyClass[f]}
            \/ localStore[f] = {String(bodyClass[f])}

\* C1 amended: after a toggle, the class is the state the toggle applied; if
\* the extension call threw, page-local storage holds String(class); if the
\* write was answered without lastError, the extension store holds the class.
\* (When the store reports an error nothing is persisted.)
C1_PersistedWhenWritten ==
    \A f \in Flags :
        lastToggle[f].cur =>
            /\ bodyClass[f] = lastToggle[f].val
            /\ lastToggle[f].via = "local" => localStore[f] = {String(bodyClass[f])}
            /\ lastToggle[f].via = "chrome" /\ ~PendingSet(f) =>
                   chromeStore[f] = {bodyClass[f]}

C1_Witness ==
    \E f \in Flags :
        /\ lastToggle[f].cur /\ lastToggle[f].via = "chrome" /\ ~PendingSet(f)
        /\ bodyClass[f] /\ chromeStore[f] = {TRUE}

\* C2 as stated: the document never holds more than one control with the same id.
C2_NoDuplicateControls ==
    \A f \in Flags : Cardinality({i \in 1..Len(dom) : dom[i].id = f}) <= 1

\* C3 as stated: a flag toggled in an earlier session is restored by init to
\* the class it had when that session ended, whatever the write and the read did.
C3_PreferenceRestored ==
    [][\A f \in Flags :
          InjectStep /\ lastToggle[f].via # "none" /\ ~lastToggle[f].cur =>
              bodyClass'[f] = lastToggle[f].val]_vars

\* C3 amended: the class at the end of the session of the toggle is restored
\* when the last write and the read use the same store without error: the write
\* was answered without lastError and the read is answered without lastError,
\* or the write call threw and the read call throws.
C3_RestoredFromSameStore ==
    [][\A f \in Flags :
          /\ lastToggle[f].cur => bodyClass[f] = lastToggle[f].val
          /\ lastToggle[f].cur /\ pc'[1] = "unloaded" =>
                 lastToggle'[f].val = bodyClass[f] /\ lastToggle'[f].via = lastToggle[f].via
          /\ InjectStep /\ ~lastToggle[f].cur
               /\ \/ lastToggle[f].via = "chrome" /\ reads[1][f].st = "ok"
                  \/ lastToggle[f].via = "local" /\ reads[1][f].st = "thrown"
             => bodyClass'[f] = lastToggle[f].val]_vars

C3_Witness ==
    \E f \in Flags :
        /\ Injected /\ ~lastToggle[f].cur /\ lastToggle[f].via = "chrome"
        /\ lastToggle[f].val /\ reads[1][f].st = "ok" /\ bodyClass[f]

\* The classes and the controls of s are those of the current state.
SameClassesAndControls(s) == <<s.cls, s.dom>> = <<bodyClass, dom>>

\* C4: from every reachable state, two consecutive clicks on a control, or two
\* presses of the shortcut of a flag whose control exists, leave the marker
\* classes and every control's icon and label as they were.
C4_DoubleToggleRestores ==
    /\ \A i \in 1..Len(dom), t1 \in BOOLEAN, t2 \in BOOLEAN :
         SameClassesAndControls(ClickHandler(ClickHandler(Cur, i, t1), i, t2))
    /\ \A f \in Flags : getElementById(f) # 0 =>
         \A k1 \in ShortcutKeys(f), k2 \in ShortcutKeys(f),
            t1 \in BOOLEAN, t2 \in BOOLEAN :
             SameClassesAndControls(
                 KeyEvent(KeyEvent(Cur, 1, TRUE, TRUE, k1, [r \in Runs |-> t1]),
                          1, TRUE, TRUE, k2, [r \in Runs |-> t2]))

\* A flag toggled twice in this session (and nothing else): it is back at the
\* state init applied.
C4_Witness ==
    \E f \in Flags :
        /\ Injected /\ nUser = 2 /\ lastToggle[f].cur
        /\ \A g \in Flags \ {f} : lastToggle[g].via = "none"
        /\ bodyClass[f] = reads[1][f].val
        /\ ShowsCollapse(dom[getElementById(f)])

\* C5: every control in the document shows the icon and label of "expand"
\* exactly when its flag's class is on the body, and of "collapse" exactly when
\* it is not.
C5_ControlMatchesClass ==
    \A i \in 1..Len(dom) :
        /\ bodyClass[dom[i].id] <=> ShowsExpand(dom[i])
        /\ ~bodyClass[dom[i].id] <=> ShowsCollapse(dom[i])

C5_Witness ==
    \E i \in 1..Len(dom) :
        lastToggle[dom[i].id].cur /\ bodyClass[dom[i].id] /\ ShowsExpand(dom[i])

C7_FreshLoadExpanded ==
    (/\ Injected
     /\ \A f \in Flags :
          chromeStore[f] = {} /\ localStore[f] = {} /\ ~lastToggle[f].cur)
    => /\ \A f \in Flags : ~bodyClass[f]
       /\ Len(dom) = 3
       /\ \A i \in 1..Len(dom) : ShowsCollapse(dom[i])

C7_Witness ==
    /\ Injected /\ nUser = 0 /\ Len(dom) = 3
    /\ \A f \in Flags : chromeStore[f] = {} /\ localStore[f] = {} /\ ~bodyClass[f]

\* C8: once init polls, the controls are eventually injected; a tick injects
\* exactly when the container exists or elapsed reaches maxWait with it, so no
\* later than the tick that makes elapsed maxWait.
C8_EventuallyInjected ==
    /\ (pc[1] = "polling") ~> (pc[1] = "done" /\ Len(dom) = 3)
    /\ [](pc[1] = "polling" => elapsed[1] <= maxWait - interval)
    /\ [][pc[1] = "polling" =>
            /\ pc'[1] = "done" => container \/ elapsed[1] + interval >= maxWait
            /\ elapsed'[1] # elapsed[1] /\ pc'[1] = "polling" =>
                   /\ elapsed'[1] = elapsed[1] + interval
                   /\ ~container /\ elapsed'[1] < maxWait]_vars

\* Injected by the timeout: the container never appeared.
C8_Witness == pc[1] = "done" /\ ~container /\ Len(dom) = 3

\* C9: the document grows only on the tick that clears the interval; after it
\* the interval stays cleared and nothing is injected again; a run never has
\* more than its three controls in the document.
C9_TimerOneShot ==
    [][/\ Len(dom') > Len(dom) => InjectStep /\ Len(dom') = Len(dom) + 3
       /\ pc[1] = "done" =>
            /\ pc'[1] \in {"done", "unloaded"}
            /\ pc'[1] = "done" => Len(dom') = Len(dom)
       /\ Cardinality({i \in 1..Len(dom') : dom'[i].owner = 1}) <= 3]_vars

C9_Witness == Injected /\ Len(dom) = 3 /\ container /\ nUser > 0

\* C10 as stated: a read that fails, by a reported error or by a throw, yields
\* false.
C10_FailedReadIsFalse ==
    \A f \in Flags : reads[1][f].st \in {"error", "thrown"} => ~reads[1][f].val

\* C10 amended: a read answered with lastError yields false and the region is
\* initialised expanded; a read whose call throws yields whether page-local
\* storage holds 'true' under the key, and the region is initialised so.
C10_ReadFailureDefaults ==
    \A f \in Flags :
        /\ reads[1][f].st = "error" =>
              /\ ~reads[1][f].val
              /\ Injected /\ ~lastToggle[f].cur => ~bodyClass[f]
        /\ reads[1][f].st = "thrown" /\ ~lastToggle[f].cur =>
              /\ reads[1][f].val = (localStore[f] = {"true"})
              /\ Injected => bodyClass[f] = (localStore[f] = {"true"})

\* A read failed although true is persisted: the region starts expanded.
C10_Witness ==
    \E f \in Flags :
        /\ Injected /\ reads[1][f].st = "error" /\ chromeStore[f] = {TRUE}
        /\ ~lastToggle[f].cur /\ ~bodyClass[f]

----------------------------------------------------------------------------
\* The write of the most recent toggle of the flag, in this page session, did
\* not reach the extension store: the store answered it with lastError, or
\* the call threw.
FailedWrite(f) == lastToggle[f].cur /\ lastToggle[f].via \in {"lost", "local"}

----------------------------------------------------------------------------
\* The writes of flag g among the requests q, in order.
WritesOf(q, g) ==
    LET IsWriteOfG(o) == o.op = "set" /\ o.key = g
    IN SelectSeq(q, IsWriteOfG)

\* The controls of flag g in the document d, in order.
ControlsOf(d, g) ==
    LET IsControlOfG(b) == b.id = g
    IN SelectSeq(d, IsControlOfG)

\* A step in which the user toggled something by a click or a shortcut.
UserStep == nUser' = nUser + 1

\* C12: a toggle (click or shortcut) changes the class of exactly one flag and
\* leaves the other flags' classes, their controls, the values persisted under
\* their keys in either store and the writes in flight for their keys as they
\* were; the answer to a write changes the persisted value of no other key.
C12_FlagsIndependent ==
    [][/\ UserStep =>
            \E f \in Flags :
                /\ bodyClass'[f] = ~bodyClass[f]
                /\ \A g \in Flags \ {f} :
                      /\ bodyClass'[g] = bodyClass[g]
                      /\ ControlsOf(dom', g) = ControlsOf(dom, g)
                      /\ localStore'[g] = localStore[g]
                      /\ chromeStore'[g] = chromeStore[g]
                      /\ WritesOf(queue', g) = WritesOf(queue, g)
       /\ chromeStore' # chromeStore =>
            /\ queue # <<>> /\ Head(queue).op = "set"
            /\ \A g \in Flags \ {Head(queue).key} : chromeStore'[g] = chromeStore[g]
      ]_vars

\* One flag was toggled and persisted, the others are untouched.
C12_Witness ==
    \E f \in Flags :
        /\ nUser = 1 /\ lastToggle[f].cur /\ bodyClass[f] /\ chromeStore[f] = {TRUE}
        /\ ShowsExpand(dom[getElementById(f)])
        /\ \A g \in Flags \ {f} :
              /\ ~bodyClass[g] /\ chromeStore[g] = {} /\ localStore[g] = {}
              /\ ShowsCollapse(dom[getElementById(g)])

----------------------------------------------------------------------------
\* The reads of flag f by run r among the requests q.
ReadsOf(q, r, f) ==
    LET IsReadOfF(o) == o.op = "get" /\ o.key = f /\ o.run = r
    IN SelectSeq(q, IsReadOfF)

\* The synchronous block of init() of run r that calls getStoredState.
InitReads(r) == pc[r] \in {"unloaded", "waiting"} /\ pc'[r] \in {"reading", "polling"}

\* C13: a step that is no click and no shortcut (init, a polling tick, a
\* positioning tick, another key press, an answer of the store) issues no
\* write and leaves page-local storage alone; the extension store changes only
\* by taking the value of a write a toggle issued; no step removes a key from
\* either store; the read of a key is issued in the synchronous block of
\* init, once, and is answered before polling begins.
C13_OnlyUserWrites ==
    [][/\ ~UserStep =>
            /\ localStore' = localStore
            /\ \A f \in Flags : Len(WritesOf(queue', f)) <= Len(WritesOf(queue, f))
       /\ chromeStore' # chromeStore =>
            /\ queue # <<>> /\ Head(queue).op = "set"
            /\ chromeStore' = [chromeStore EXCEPT ![Head(queue).key] = {Head(queue).value}]
       /\ \A f \in Flags :
            /\ chromeStore[f] # {} => chromeStore'[f] # {}
            /\ localStore[f] # {} => localStore'[f] # {}
       /\ \A f \in Flags :
            /\ reads[1][f].st = "none" /\ reads'[1][f].st # "none" =>
                  /\ InitReads(1)
                  /\ reads'[1][f].st \in {"pending", "thrown"}
                  /\ reads'[1][f].st = "pending" <=> Len(ReadsOf(queue', 1, f)) = 1
            /\ reads[1][f].st # "none" =>
                  /\ reads'[1][f].st # "none"
                  /\ reads'[1][f].st = "pending" => reads[1][f].st = "pending"
                  /\ queue' # queue =>
                        Len(ReadsOf(queue', 1, f)) <= Len(ReadsOf(queue, 1, f))
            /\ pc[1] \in {"unloaded", "waiting"} =>
                  reads[1][f].st = "none" /\ ReadsOf(queue, 1, f) = <<>>
            /\ pc[1] \in {"polling", "done"} =>
                  /\ reads[1][f].st \in {"ok", "error", "thrown"}
                  /\ reads'[1][f] = reads[1][f]
                  /\ queue' # queue => ReadsOf(queue', 1, f) = <<>>
      ]_vars

\* After a toggle was persisted the positioning loop and the polling have run:
\* the store still holds what the toggle wrote.
C13_Witness ==
    \E f \in Flags :
        /\ Injected /\ lastLeftPos[1] # "" /\ nUser = 1 /\ queue = <<>>
        /\ reads[1][f].st = "ok" /\ lastToggle[f].via = "chrome"
        /\ chromeStore[f] = {TRUE} /\ bodyClass[f]

----------------------------------------------------------------------------
\* Every targetLeft a tick can compute from the rectangles.
AllTargets ==
    {TargetLeft(c, rz, sb, tr) :
        c \in BOOLEAN, rz \in Rects(ResizerLefts), sb \in Rects(SidebarRights),
        tr \in Rects(TabRailRights)}

\* The text is the offset of a positive number of pixels.
PositiveOffset(text) == \E n \in AllTargets : n > 0 /\ text = Px(n)

\* C14: the style.left of every control, and lastLeftPos, is either the empty
\* text it was created with or a positive number of pixels, and a step leaves
\* the style.left of a control as it was or sets it to a positive number of
\* pixels.
C14_OffsetPositive ==
    [][/\ \A i \in 1..Len(dom) : dom[i].left = "" \/ PositiveOffset(dom[i].left)
       /\ lastLeftPos[1] = "" \/ PositiveOffset(lastLeftPos[1])
       /\ \A i \in 1..Len(dom) : i <= Len(dom') =>
             dom'[i].left = dom[i].left \/ PositiveOffset(dom'[i].left)
       /\ lastLeftPos'[1] = lastLeftPos[1] \/ PositiveOffset(lastLeftPos'[1])
      ]_vars

\* The smallest offset the loop assigns: the resizer is 11 px from the left.
C14_Witness ==
    /\ getElementById("left") # 0 /\ ~bodyClass["left"]
    /\ dom[getElementById("left")].left = Px(1) /\ lastLeftPos[1] = Px(1)

----------------------------------------------------------------------------
\* C15: in every reachable state, a positioning tick that finds no left
\* control (whatever the rectangles), or finds the sidebar expanded with
\* neither resizer nor sidebar, or collapsed with no tab rail, leaves the
\* document (the control's offset with it), lastLeftPos, the classes,
\* page-local storage and the requests to the extension store as they were.
C15_AbsentElementsNoChange ==
    \A rz \in Rects(ResizerLefts), sb \in Rects(SidebarRights),
       tr \in Rects(TabRailRights) :
        (\/ getElementById("left") = 0
         \/ ~bodyClass["left"] /\ rz = {} /\ sb = {}
         \/ bodyClass["left"] /\ tr = {})
        => PositionLeft(Cur, lastLeftPos[1], rz, sb, tr)
             = [s |-> Cur, last |-> lastLeftPos[1]]

\* The control has an offset from an earlier tick and the sidebar is now
\* collapsed: a tick without a tab rail finds the offset of the expanded
\* sidebar.
C15_Witness ==
    /\ getElementById("left") # 0 /\ bodyClass["left"]
    /\ dom[getElementById("left")].left = Px(246) /\ lastLeftPos[1] = Px(246)

----------------------------------------------------------------------------
\* C16: the tick that injects writes the timeout warning exactly when it found
\* no container and elapsed, after its increment, has reached maxWait; it
\* writes none when it found the container, on the tick that reaches maxWait
\* included; in both cases it appends the three controls.  No other step of
\* the session writes the warning.
C16_WarningOnTimeoutOnly ==
    [][/\ InjectStep =>
            /\ warned'[1] <=> (~container /\ elapsed[1] + interval >= maxWait)
            /\ container => ~warned'[1]
            /\ Len(dom') = Len(dom) + 3
            /\ \A f \in Flags : GetElementByIdIn(dom', f) # 0
       /\ ~InjectStep /\ pc'[1] # "unloaded" => warned'[1] = warned[1]
       /\ warned[1] => Injected
      ]_vars

\* The controls were injected by the timeout, with the warning.
C16_Witness == warned[1] /\ Injected /\ ~container /\ Len(dom) = 3 /\ nUser = 0

----------------------------------------------------------------------------
\* The handlers' state t holds v as the value the last handler persisted for
\* flag f, starting from the requests q: as a new request to the extension
\* store, or in page-local storage when the call threw.
PersistedBy(t, q, f, v, thrown) ==
    IF thrown
    THEN t.loc[f] = {String(v)} /\ t.q = q
    ELSE t.q = Append(q, SetOp(f, v))

\* C17: every click or shortcut step flips the class of one flag and persists
\* the negation of the class's presence before the step, whatever was read at
\* startup and whatever the stores hold; and in the state of the step the
\* click listener of that flag's control does so also when page-local storage
\* and the record of earlier toggles are replaced by any other contents.
C17_ClassIsSourceOfTruth ==
    [][UserStep =>
         \E f \in Flags :
             /\ bodyClass'[f] = ~bodyClass[f]
             /\ lastToggle'[f].val = ~bodyClass[f]
             /\ \E thrown \in BOOLEAN :
                   PersistedBy([loc |-> localStore', q |-> queue'], queue, f,
                               ~bodyClass[f], thrown)
             /\ \A thrown \in BOOLEAN, l \in {{}, {"true"}, {"false"}},
                   forget \in BOOLEAN :
                   LET h == IF forget THEN NoToggle ELSE lastToggle[f]
                       s == [Cur EXCEPT !.loc[f] = l, !.lt[f] = h]
                       t == ClickHandler(s, getElementById(f), thrown)
                   IN /\ t.cls[f] = ~bodyClass[f]
                      /\ PersistedBy(t, queue, f, ~bodyClass[f], thrown)
      ]_vars

\* The flag was read as true at startup and true is what the extension store
\* holds, and the region is expanded: the next click applies and persists
\* true.
C17_Witness ==
    \E f \in Flags :
        /\ Injected /\ reads[1][f].val /\ chromeStore[f] = {TRUE} /\ queue = <<>>
        /\ lastToggle[f].cur /\ ~bodyClass[f] /\ getElementById(f) # 0
        /\ ClickHandler(Cur, getElementById(f), FALSE).cls[f]

----------------------------------------------------------------------------
\* The most recent toggle of the flag was issued while an earlier write of the
\* flag had not been answered.
Overlapped(f) == lastToggle[f].cur /\ lastToggle[f].over

\* C18 as stated: after toggles of a flag that overlapped its writes, once no
\* write of the flag is in flight, the value persisted under the flag's key is
\* the presence of the marker class.
C18_SettledEqualsClass ==
    \A f \in Flags :
        Overlapped(f) /\ ~PendingSet(f) =>
            IF lastToggle[f].via = "local"
            THEN localStore[f] = {String(bodyClass[f])}
            ELSE chromeStore[f] = {bodyClass[f]}

\* C18 amended: after toggles of a flag that overlapped its writes, the class
\* is the state of the last toggle; while its write is queued, it is the last
\* write of the flag in the queue; once no write of the flag is in flight, the
\* extension store holds the class if that write was answered without
\* lastError, and page-local storage holds String(class) if the call threw.
C18_LastAnsweredWriteWins ==
    \A f \in Flags :
        Overlapped(f) =>
            /\ bodyClass[f] = lastToggle[f].val
            /\ lastToggle[f].via = "chrome" /\ PendingSet(f) =>
                  WritesOf(queue, f)[Len(WritesOf(queue, f))].value = bodyClass[f]
            /\ lastToggle[f].via = "chrome" /\ ~PendingSet(f) =>
                  chromeStore[f] = {bodyClass[f]}
            /\ lastToggle[f].via = "local" => localStore[f] = {String(bodyClass[f])}

\* Two toggles of one flag were sent before the first write was answered, and
\* both writes have been answered: the store holds the second.
C18_Witness ==
    \E f \in Flags :
        /\ Overlapped(f) /\ lastToggle[f].via = "chrome" /\ ~PendingSet(f)
        /\ nUser = 2 /\ ~bodyClass[f] /\ chromeStore[f] = {FALSE}

----------------------------------------------------------------------------
\* Run 1 has not injected its controls: the script has not run yet, waits for
\* the document, reads the flags, or polls.
BeforeInjection == pc[1] \in {"unloaded", "waiting", "reading", "polling"}

\* C19: until the injecting tick the body carries no marker class and the
\* document no control, whatever is persisted and whatever init has read; a
\* shortcut pressed then leaves classes, document, page-local storage and the
\* requests to the extension store as they are; the first step that changes a
\* class is the injecting tick, which sets each class to the value init read.
C19_NothingBeforeInjection ==
    [][/\ BeforeInjection =>
            /\ \A f \in Flags : ~bodyClass[f]
            /\ dom = <<>>
            /\ \A k \in {"h", "J", "l"} : KeyListener(Cur, TRUE, TRUE, k, FALSE) = Cur
            /\ <<bodyClass', dom'>> # <<bodyClass, dom>> => InjectStep
       /\ InjectStep =>
            \A f \in Flags :
                /\ bodyClass'[f] = reads[1][f].val
                /\ GetElementByIdIn(dom', f) # 0
                /\ IF reads[1][f].val
                   THEN ShowsExpand(dom'[GetElementByIdIn(dom', f)])
                   ELSE ShowsCollapse(dom'[GetElementByIdIn(dom', f)])
      ]_vars

\* init has read true for a flag that is persisted as true and polls: the
\* region is still expanded.
C19_Witness ==
    \E f \in Flags :
        /\ pc[1] = "polling" /\ elapsed[1] > 0 /\ reads[1][f].val
        /\ chromeStore[f] = {TRUE} /\ ~bodyClass[f] /\ dom = <<>>

====
